---- MODULE Spec2Model ----
(***************************************************************************)
(* A model of the interpreter lifecycle, the GC arena protocol, exception  *)
(* extraction and Kernel#require of the mruby crate                        *)
(* (src/mruby/src/interpreter.rs).                                         *)
(*                                                                         *)
(* Paths and names are sequences of tokens: "/" is the separator, ".rb"    *)
(* the extension, every other token a path component.                      *)
(***************************************************************************)
EXTENDS Naturals, Sequences, FiniteSets, TLC

VARIABLES
    vfs,        \* api.vfs: per path, whether it is a file, its content, its metadata
    stack,      \* the active calls of `require`, innermost last
    ctx,        \* the EvalContext stack of the interpreter state
    exc,        \* (*mrb).exc, the VM's current-exception slot
    result,     \* what the host's last `interp.eval("require '...'")` returned
    nativeRuns, \* per path, how many times its native loader was invoked
    sourceRuns, \* per path, how many times its source was evaluated
    trace,      \* what the current outermost require call has done so far
    registry,   \* the module and class specs registered in the interpreter state
    cell,       \* the borrow flag of the RefCell that wraps the interpreter state
    vm,         \* the mrb_state: "none" before mrb_open, then "open", then "closed"
    closes,     \* how many times the VM instance was closed
    strong,     \* Rc::strong_count of the shared state
    held,       \* how many handles (Mrb) the host holds
    ud,         \* (*mrb).ud, the user-data slot: "null" or "ptr"
    arena,      \* the depth of the VM's GC protection stack
    saves,      \* the open arena savepoints, innermost last
    ops,        \* the active calls of create and current_exception, innermost last
    last,       \* the last operation that returned to the host, and its value
    regex,      \* the capture names of the Regexp that `names` is called on
    names       \* what Regexp#names returned, once it was called

reqVars ==
    <<vfs, stack, ctx, result, nativeRuns, sourceRuns, trace, registry, cell>>
vmVars == <<vm, closes, strong, held, ud, arena, saves, ops, last>>
regexpVars == <<regex, names>>
vars == <<reqVars, exc, vmVars, regexpVars>>

-----------------------------------------------------------------------------
(* Bounds *)

\* How deep requires may nest (a loader or a source requiring again).
MaxDepth == 2
\* An outermost require starts only while fewer loaders and sources than this
\* have run in all.
MaxRuns == 3

-----------------------------------------------------------------------------
(* Paths *)

RUBY_LOAD_PATH == <<"/", "src", "/", "lib">>

\* Path::is_relative
is_relative(p) == p = <<>> \/ Head(p) # "/"

\* PathBuf::join: an absolute argument replaces the base
join(base, p) == IF is_relative(p) THEN base \o <<"/">> \o p ELSE p

\* The candidates of require, in order (interpreter.rs 56-60)
Files(name) ==
    LET path == IF is_relative(name) THEN RUBY_LOAD_PATH ELSE name
    IN  << join(path, name), join(path, name \o <<".rb">>) >>

\* The names the host and the loaded code require
RequireNames == { <<"a">>, <<"a", ".rb">>, <<"/", "src">>, <<"m">> }

\* The file names the host registers sources and native loaders for
DefNames == { <<"a">>, <<"a", ".rb">> }

\* def_rb_source_file and def_file_for_type resolve a relative name on the load path
Resolve(filename) ==
    IF is_relative(filename) THEN join(RUBY_LOAD_PATH, filename) ELSE filename

FilePaths == { Resolve(n) : n \in DefNames }

\* The directories of the Vfs: the load path and its parents
Dirs == { <<"/">>, <<"/", "src">>, RUBY_LOAD_PATH }

-----------------------------------------------------------------------------
(* What a native loader or a source does when it runs *)

NoName == <<>>
BehOk == [op |-> "ok", name |-> NoName]
BehFail == [op |-> "fail", name |-> NoName]
BehRequire(n) == [op |-> "require", name |-> n]

\* The names loaded code requires again
NestedNames == { <<"a", ".rb">> }

Behaviours == { BehOk, BehFail } \cup { BehRequire(n) : n \in NestedNames }

\* A native loader that registers, while it runs, a native loader or a source
\* for the file `n`
BehDefFile(n) == [op |-> "def_file_for_type", name |-> n]
BehDefSource(n) == [op |-> "def_rb_source_file", name |-> n]

NoLoader == [op |-> "none", name |-> NoName]
NoContent == [op |-> "none", name |-> NoName]

-----------------------------------------------------------------------------
(* The Vfs and its metadata (state.rs VfsMetadata, mruby_vfs::FileSystem) *)

\* VfsMetadata::new: no native loader, not required
VfsMetadata_new == [require |-> NoLoader, already_required |-> FALSE]

NoFile == [file |-> FALSE, content |-> NoContent, meta |-> VfsMetadata_new]

\* api.vfs.is_file(&path): directories and unknown paths are not files
is_file(v, path) == path \in DOMAIN v /\ v[path].file

\* api.vfs.metadata(&path).unwrap_or_else(VfsMetadata::new)
metadata_or_new(v, path) == v[path].meta

is_already_required(md) == md.already_required

mark_required(md) == [md EXCEPT !.already_required = TRUE]

\* api.vfs.set_metadata(&path, metadata): the whole record replaces the stored one
set_metadata(v, path, md) == [v EXCEPT ![path].meta = md]

\* def_rb_source_file(filename, contents): the path becomes a file with this
\* content; its metadata is kept
def_rb_source_file(v, filename, contents) ==
    [v EXCEPT ![Resolve(filename)] =
        [file |-> TRUE, content |-> contents, meta |-> @.meta]]

\* def_file_for_type::<_, F>(filename): F::require becomes the native loader of
\* the path, which becomes a file (with empty content) if it is none yet
def_file_for_type(v, filename, loader) ==
    [v EXCEPT ![Resolve(filename)] =
        [file |-> TRUE,
         content |-> IF @.file THEN @.content ELSE BehOk,
         meta |-> [@.meta EXCEPT !.require = loader]]]

-----------------------------------------------------------------------------
(* Exceptions raised into the VM *)

NoExc == [class |-> "none", message |-> <<>>]

\* format!("cannot load such file -- {}", file)
LoadErrorMessage(file) == <<"cannot load such file -- ">> \o file

LoadError(file) == [class |-> "LoadError", message |-> LoadErrorMessage(file)]

\* unwrap_or_raise! and unwrap_value_or_raise!: the host error is raised into the VM
RaisedError(msg) == [class |-> "RuntimeError", message |-> msg]

-----------------------------------------------------------------------------
(* Borrows of the interpreter state: Mrb = Rc<RefCell<State>> *)

\* no borrow is held
NoBorrow == [shared |-> 0, exclusive |-> FALSE, conflict |-> FALSE]

\* RefCell::borrow: conflicts with an exclusive borrow
borrow(c) ==
    IF c.exclusive THEN [c EXCEPT !.conflict = TRUE]
    ELSE [c EXCEPT !.shared = @ + 1]

\* RefCell::borrow_mut: conflicts with any borrow
borrow_mut(c) ==
    IF c.exclusive \/ c.shared > 0 THEN [c EXCEPT !.conflict = TRUE]
    ELSE [c EXCEPT !.exclusive = TRUE]

\* the Ref or the RefMut goes out of scope
drop_ref(c) == IF c.conflict THEN c ELSE [c EXCEPT !.shared = @ - 1]
drop_mut(c) == IF c.conflict THEN c ELSE [c EXCEPT !.exclusive = FALSE]

\* a block that keeps its `api` borrowed when it ends
Scoped_keeps_api(c) == borrow(c)

\* { let api = interp.borrow(); ... } and the temporary interp.borrow(): the
\* borrow ends with the block or the statement (interpreter.rs 62-65)
Scoped(c) == drop_ref(borrow(c))

\* interp.borrow_mut() for the time of one call on the state, as in
\* push_context, pop_context and the loaders' def_module and def_class
ScopedMut(c) == drop_mut(borrow_mut(c))

-----------------------------------------------------------------------------
(* One call of require: the frame of its local variables *)

NewFrame(name, v, c, t) ==
    [name |-> name, idx |-> 1, path |-> <<>>, pc |-> "start",
     metadata |-> VfsMetadata_new, success |-> FALSE, ret |-> "none",
     vfs0 |-> v,       \* the Vfs when the call was entered
     ctx0 |-> c,       \* the EvalContext stack when the call was entered
     work0 |-> t]      \* the length of the trace when the call was entered

\* the call has returned `r` to the VM
Done(f, r) == [f EXCEPT !.pc = "done", !.ret = r]

\* a raise_load_error that names the resolved path instead of the requested name
raise_load_error_resolved(st, file) ==
    [st EXCEPT !.frame = Done(@, "false"), !.exc = LoadError(Files(file)[1])]

\* raise_load_error(&interp, &name): raise LoadError for the requested name and
\* return false
raise_load_error(st, file) ==
    [st EXCEPT !.frame = Done(@, "false"), !.exc = LoadError(file),
               !.cell = Scoped(Scoped(@))]

\* interpreter.rs 95-107: read the contents and start their evaluation;
\* eval_with_context pushes the context for the time of the evaluation
ReadAndEval(st) ==
    IF is_file(st.vfs, st.frame.path)
    THEN [st EXCEPT !.frame.pc = "source", !.ctx = Append(@, st.frame.path),
                    !.cell = ScopedMut(Scoped(@))]
    ELSE raise_load_error([st EXCEPT !.cell = Scoped(@)], st.frame.name)

\* interpreter.rs 61-94 and 125-129: the loop over the candidates from the i-th
\* on, up to the next call out of require (a native loader, an evaluation) or
\* to its return
RECURSIVE Loop(_, _)
Loop(st, i) ==
    IF i > Len(Files(st.frame.name))
    THEN IF st.frame.success
         THEN [st EXCEPT !.frame = Done(@, "true")]
         ELSE raise_load_error(st, st.frame.name)
    ELSE LET path == Files(st.frame.name)[i]
             s1 == [st EXCEPT !.cell = Scoped(@)]
         IN  IF ~is_file(st.vfs, path)
             THEN Loop(s1, i + 1)
             ELSE LET metadata == metadata_or_new(st.vfs, path)
                      s2 == [s1 EXCEPT !.cell = Scoped(@)]
                      f == [st.frame EXCEPT !.idx = i, !.path = path,
                                           !.metadata = metadata]
                  IN  IF is_already_required(metadata)
                      THEN [s2 EXCEPT !.frame = Done(@, "false")]
                      ELSE IF metadata.require # NoLoader
                           THEN [s2 EXCEPT !.frame = [f EXCEPT !.pc = "native"],
                                           !.ctx = Append(@, path),
                                           !.cell = ScopedMut(@)]
                           ELSE ReadAndEval([s2 EXCEPT !.frame = f])

\* interpreter.rs 92 (Err): the loader failed; the error is raised and require
\* returns nil at once
NativeFailed(st, msg) ==
    [st EXCEPT !.frame = Done(@, "nil"), !.exc = RaisedError(msg)]

\* a require that records the candidate as required although its evaluation failed
SourceFailed_records(st, msg) ==
    [st EXCEPT !.frame = Done(@, "nil"), !.exc = RaisedError(msg),
               !.ctx = SubSeq(@, 1, Len(@) - 1),
               !.vfs = set_metadata(@, st.frame.path,
                                    mark_required(st.frame.metadata))]

\* a require that marks the candidate required as soon as its loader returned Ok
NativeOk_marks_early(st) ==
    ReadAndEval([st EXCEPT !.ctx = SubSeq(@, 1, Len(@) - 1),
                           !.vfs = set_metadata(@, st.frame.path,
                                                mark_required(st.frame.metadata))])

\* interpreter.rs 93-107: the loader returned Ok; pop its context, go on to the source
NativeOk(st) ==
    ReadAndEval([st EXCEPT !.ctx = SubSeq(@, 1, Len(@) - 1),
                           !.cell = ScopedMut(@)])

\* interpreter.rs 101 (Err): the evaluation failed; eval_with_context has popped
\* its context, the error is raised and require returns nil
SourceFailed(st, msg) ==
    [st EXCEPT !.frame = Done(@, "nil"), !.exc = RaisedError(msg),
               !.ctx = SubSeq(@, 1, Len(@) - 1),
               !.cell = ScopedMut(@)]

\* interpreter.rs 108-124: the evaluation succeeded; write the metadata fetched
\* before the load, marked required, and go on with the next candidate
SourceOk(st) ==
    LET popped == [st EXCEPT !.ctx = SubSeq(@, 1, Len(@) - 1),
                             !.cell = ScopedMut(@)]
        marked == [popped EXCEPT
                      !.vfs = set_metadata(@, st.frame.path,
                                           mark_required(st.frame.metadata)),
                      !.frame.success = TRUE,
                      !.cell = Scoped(Scoped(@))]
    IN  Loop(marked, st.frame.idx + 1)

-----------------------------------------------------------------------------
(* The state machine of require *)

Idle == stack = <<>>
Top == stack[Len(stack)]

\* the machine as the innermost call sees it
Cur == [frame |-> Top, vfs |-> vfs, ctx |-> ctx, exc |-> exc, cell |-> cell]

\* the events of a step: what ran, and every path whose metadata was written
Marks(v1, v2) == { p \in DOMAIN v1 : v1[p].meta # v2[p].meta }

RECURSIVE MarkEvents(_)
MarkEvents(ps) ==
    IF ps = {} THEN <<>>
    ELSE LET p == CHOOSE q \in ps : TRUE
         IN  <<[ev |-> "mark", path |-> p]>> \o MarkEvents(ps \ {p})

\* the innermost call goes on to state st
Commit(st, events) ==
    /\ stack' = [stack EXCEPT ![Len(stack)] = st.frame]
    /\ vfs' = st.vfs
    /\ ctx' = st.ctx
    /\ exc' = st.exc
    /\ cell' = st.cell
    /\ trace' = trace \o events \o MarkEvents(Marks(vfs, st.vfs))

\* the code that runs (a loader or a source) requires `name`: the VM calls
\* require, which runs up to its first call out or to its return
Call(name, waitpc, events) ==
    LET t == trace \o events
        st == Loop([frame |-> NewFrame(name, vfs, ctx, Len(t)), vfs |-> vfs,
                    ctx |-> ctx, exc |-> exc, cell |-> cell], 1)
    IN  /\ Len(stack) < MaxDepth
        /\ stack' = Append([stack EXCEPT ![Len(stack)].pc = waitpc], st.frame)
        /\ vfs' = st.vfs
        /\ ctx' = st.ctx
        /\ exc' = st.exc
        /\ cell' = st.cell
        /\ trace' = t

RECURSIVE SumOver(_, _)
SumOver(f, ps) ==
    IF ps = {} THEN 0
    ELSE LET p == CHOOSE q \in ps : TRUE IN f[p] + SumOver(f, ps \ {p})

\* how many loaders and sources have run so far
TotalRuns ==
    SumOver(nativeRuns, DOMAIN nativeRuns) + SumOver(sourceRuns, DOMAIN sourceRuns)

\* The VM calls require for the host's eval("require 'name'")
StartRequire(name) ==
    /\ LET st == Loop([frame |-> NewFrame(name, vfs, ctx, 0), vfs |-> vfs,
                       ctx |-> ctx, exc |-> exc, cell |-> cell], 1)
       IN  /\ stack' = <<st.frame>>
           /\ vfs' = st.vfs
           /\ ctx' = st.ctx
           /\ exc' = st.exc
           /\ cell' = st.cell
    /\ trace' = <<>>
    /\ result' = [value |-> "none", error |-> NoExc]
    /\ UNCHANGED <<nativeRuns, sourceRuns>>
    /\ UNCHANGED <<registry, vmVars, regexpVars>>

\* The host evaluates "require 'name'" (tests::require, interpreter.rs 393)
EvalRequire(name) ==
    /\ Idle
    /\ TotalRuns < MaxRuns
    /\ StartRequire(name)

\* interpreter.rs 92: the native loader of the candidate runs
NativeLoader ==
    /\ ~Idle
    /\ Top.pc = "native"
    /\ LET beh == Top.metadata.require
           ev == <<[ev |-> "native", path |-> Top.path]>>
       IN  CASE beh.op = "ok" -> Commit(NativeOk(Cur), ev)
             [] beh.op = "fail" -> Commit(NativeFailed(Cur, <<"loader failed">>), ev)
             [] beh.op = "require" -> Call(beh.name, "nativeWait", ev)
             [] beh.op = "def_file_for_type" ->
                    Commit(NativeOk([Cur EXCEPT
                               !.vfs = def_file_for_type(@, beh.name, BehOk)]), ev)
             [] beh.op = "def_rb_source_file" ->
                    Commit(NativeOk([Cur EXCEPT
                               !.vfs = def_rb_source_file(@, beh.name, BehOk)]), ev)
    /\ nativeRuns' = [nativeRuns EXCEPT ![Top.path] = @ + 1]
    /\ UNCHANGED <<sourceRuns, result>>
    /\ UNCHANGED <<registry, vmVars, regexpVars>>

\* interpreter.rs 101: the contents of the candidate are evaluated
EvalSource ==
    /\ ~Idle
    /\ Top.pc = "source"
    /\ LET beh == vfs[Top.path].content
           ev == <<[ev |-> "source", path |-> Top.path]>>
       IN  CASE beh.op = "ok" -> Commit(SourceOk(Cur), ev)
             [] beh.op = "fail" -> Commit(SourceFailed(Cur, <<"source raised">>), ev)
             [] beh.op = "require" -> Call(beh.name, "sourceWait", ev)
    /\ sourceRuns' = [sourceRuns EXCEPT ![Top.path] = @ + 1]
    /\ UNCHANGED <<nativeRuns, result>>
    /\ UNCHANGED <<registry, vmVars, regexpVars>>

\* A nested require returns into the loader or the source that called it, which
\* then ends: with the error of the require if it raised, else with success
ReturnNested ==
    /\ Len(stack) > 1
    /\ Top.pc = "done"
    /\ LET caller == stack[Len(stack) - 1]
           st == [frame |-> caller, vfs |-> vfs, ctx |-> ctx, exc |-> NoExc,
                  cell |-> cell]
           nx == CASE caller.pc = "nativeWait" /\ exc # NoExc ->
                          NativeFailed(st, exc.message)
                   [] caller.pc = "nativeWait" /\ exc = NoExc -> NativeOk(st)
                   [] caller.pc = "sourceWait" /\ exc # NoExc ->
                          SourceFailed(st, exc.message)
                   [] caller.pc = "sourceWait" /\ exc = NoExc -> SourceOk(st)
       IN  /\ stack' = Append(SubSeq(stack, 1, Len(stack) - 2), nx.frame)
           /\ vfs' = nx.vfs
           /\ ctx' = nx.ctx
           /\ exc' = nx.exc
           /\ cell' = nx.cell
           /\ trace' = trace \o MarkEvents(Marks(vfs, nx.vfs))
    /\ UNCHANGED <<nativeRuns, sourceRuns, result>>
    /\ UNCHANGED <<registry, vmVars, regexpVars>>

\* The outermost require returns to the host's eval, which takes the pending
\* exception out of the VM (eval's call of current_exception)
ReturnToHost ==
    /\ Len(stack) = 1
    /\ Top.pc = "done"
    /\ result' = [value |-> Top.ret, error |-> exc]
    /\ exc' = NoExc
    /\ stack' = <<>>
    /\ UNCHANGED <<vfs, ctx, nativeRuns, sourceRuns, trace, cell>>
    /\ UNCHANGED <<registry, vmVars, regexpVars>>

\* The host registers a source file
DefRbSourceFile(filename, contents) ==
    /\ Idle
    /\ vfs' = def_rb_source_file(vfs, filename, contents)
    /\ UNCHANGED <<stack, ctx, exc, result, nativeRuns, sourceRuns, trace, cell>>
    /\ UNCHANGED <<registry, vmVars, regexpVars>>

\* The host registers a native loader
DefFileForType(filename, loader) ==
    /\ Idle
    /\ vfs' = def_file_for_type(vfs, filename, loader)
    /\ UNCHANGED <<stack, ctx, exc, result, nativeRuns, sourceRuns, trace, cell>>
    /\ UNCHANGED <<registry, vmVars, regexpVars>>

\* no module and no class spec
NoSpecs == [modules |-> {}, classes |-> {}]

\* State::new over the paths ps: an empty Vfs (but for the directories of the
\* load path), no eval context, nothing required, nothing registered
NewState(ps) ==
    /\ vfs = [p \in ps |-> NoFile]
    /\ stack = <<>>
    /\ ctx = <<>>
    /\ exc = NoExc
    /\ result = [value |-> "none", error |-> NoExc]
    /\ nativeRuns = [p \in ps |-> 0]
    /\ sourceRuns = [p \in ps |-> 0]
    /\ trace = <<>>
    /\ registry = NoSpecs
    /\ cell = NoBorrow

InitState == NewState(FilePaths)

\* Regexp#names was not called
NotCalled == [called |-> FALSE, value |-> <<>>]
NoRegexp == regex = <<>> /\ names = NotCalled

\* The VM and the handle as Interpreter::create() returned them to the host
Created ==
    /\ vm = "open"
    /\ closes = 0
    /\ strong = 1
    /\ held = 1
    /\ ud = "ptr"
    /\ arena = 0
    /\ saves = <<>>
    /\ ops = <<>>
    /\ last = [op |-> "create", value |-> <<"Ok">>, at |-> "return"]

\* The interpreter as Interpreter::create() returned it to the host
Init == InitState /\ Created /\ NoRegexp

Next ==
    \/ \E n \in RequireNames : EvalRequire(n)
    \/ NativeLoader
    \/ EvalSource
    \/ ReturnNested
    \/ ReturnToHost
    \/ \E n \in DefNames, b \in Behaviours : DefRbSourceFile(n, b)
    \/ \E n \in DefNames, b \in Behaviours : DefFileForType(n, b)

Spec == Init /\ [][Next]_vars

\* The names the host requires by absolute path (tests::require_absolute_path),
\* next to the relative name of the same file
AbsoluteNames == { RUBY_LOAD_PATH \o <<"/", "a">>, <<"a">> }

NextAbsolute ==
    \/ \E n \in AbsoluteNames : EvalRequire(n)
    \/ NativeLoader
    \/ EvalSource
    \/ ReturnNested
    \/ ReturnToHost
    \/ \E n \in DefNames, b \in Behaviours : DefRbSourceFile(n, b)
    \/ \E n \in DefNames, b \in Behaviours : DefFileForType(n, b)

SpecAbsolute == Init /\ [][NextAbsolute]_vars

\* Native loaders that register files while they run
RegisteringLoaders ==
    { BehOk } \cup { BehDefFile(n) : n \in DefNames }
              \cup { BehDefSource(n) : n \in DefNames }

\* The name required when loaders register files
RegisteringNames == { <<"a">> }

NextRegistering ==
    \/ \E n \in RegisteringNames : EvalRequire(n)
    \/ NativeLoader
    \/ EvalSource
    \/ ReturnNested
    \/ ReturnToHost
    \/ \E n \in DefNames, b \in Behaviours : DefRbSourceFile(n, b)
    \/ \E n \in DefNames, b \in RegisteringLoaders : DefFileForType(n, b)

SpecRegistering == Init /\ [][NextRegistering]_vars

-----------------------------------------------------------------------------
(* The Nemesis gem (src/nemesis/src/rubygems/nemesis.rs) *)

\* An outermost require of the gem's files starts only while fewer loaders and
\* sources than this have run in all.
MaxGemRuns == 5

\* The definition registry of the state: a spec per host type
def_module(reg, type, name, parent) ==
    IF \E m \in reg.modules : m.type = type THEN reg
    ELSE [reg EXCEPT !.modules =
              @ \cup {[type |-> type, name |-> name, enclosing |-> parent]}]

def_class(reg, type, name, parent, super) ==
    IF \E c \in reg.classes : c.type = type THEN reg
    ELSE [reg EXCEPT !.classes =
              @ \cup {[type |-> type, name |-> name, enclosing |-> parent,
                       super |-> super]}]

\* module_spec::<T>(): the spec registered for the type, if any
module_spec(reg, type) == { m \in reg.modules : m.type = type }

\* MrbError::NotDefined(name), as the message of the error raised
NotDefined(name) == <<"NotDefined", name>>

\* The native loaders of the gem
NemesisLoader == [op |-> "Nemesis::require", name |-> NoName]
ResponseLoader == [op |-> "Response::require", name |-> NoName]

\* The files of the gem and the names they are required by
NemesisRb == <<"nemesis", ".rb">>
ResponseRb == <<"nemesis", "/", "response", ".rb">>
GemPaths == { Resolve(NemesisRb), Resolve(ResponseRb) }
GemNames == { <<"nemesis">>, <<"nemesis", "/", "response">> }

\* What the embedded sources do: nothing but definitions, or require the other file
GemSources == { BehOk } \cup { BehRequire(n) : n \in GemNames }

\* Gem::init for Nemesis: register every embedded source, then the native
\* loaders of nemesis.rb and nemesis/response.rb
GemInit(nemesis, response) ==
    /\ Idle
    /\ ~is_file(vfs, Resolve(NemesisRb))
    /\ vfs' = def_file_for_type(
                def_file_for_type(
                  def_rb_source_file(
                    def_rb_source_file(vfs, NemesisRb, nemesis),
                    ResponseRb, response),
                  NemesisRb, NemesisLoader),
                ResponseRb, ResponseLoader)
    /\ UNCHANGED <<stack, ctx, exc, result, nativeRuns, sourceRuns, trace, cell>>
    /\ UNCHANGED <<registry, vmVars, regexpVars>>

\* The host evaluates "require 'nemesis'" or "require 'nemesis/response'"
GemRequire(name) ==
    /\ Idle
    /\ TotalRuns < MaxGemRuns
    /\ StartRequire(name)

\* require invokes Nemesis::require: register the module spec Nemesis
NemesisRequire ==
    /\ ~Idle
    /\ Top.pc = "native"
    /\ Top.metadata.require = NemesisLoader
    /\ registry' = def_module(registry, "Nemesis", "Nemesis", "none")
    /\ Commit(NativeOk([Cur EXCEPT !.cell = ScopedMut(@)]),
              <<[ev |-> "native", path |-> Top.path]>>)
    /\ nativeRuns' = [nativeRuns EXCEPT ![Top.path] = @ + 1]
    /\ UNCHANGED <<sourceRuns, result>>
    /\ UNCHANGED <<vmVars, regexpVars>>

\* a Response::require that does not look for the module spec
ResponseRequire_unchecked ==
    /\ ~Idle
    /\ Top.pc = "native"
    /\ Top.metadata.require = ResponseLoader
    /\ registry' = def_class(registry, "Response", "Response", "Nemesis", "none")
    /\ Commit(NativeOk([Cur EXCEPT !.cell = ScopedMut(@)]),
              <<[ev |-> "native", path |-> Top.path]>>)
    /\ nativeRuns' = [nativeRuns EXCEPT ![Top.path] = @ + 1]
    /\ UNCHANGED <<sourceRuns, result>>
    /\ UNCHANGED <<vmVars, regexpVars>>

\* require invokes Response::require: fail with NotDefined("Nemesis") if the
\* module spec is not registered, else register the class spec Response with
\* the module as its parent
ResponseRequire ==
    /\ ~Idle
    /\ Top.pc = "native"
    /\ Top.metadata.require = ResponseLoader
    /\ LET parent == module_spec(registry, "Nemesis")
           ev == <<[ev |-> "native", path |-> Top.path]>>
           looked == [Cur EXCEPT !.cell = Scoped(@)]
       IN  IF parent = {}
           THEN /\ registry' = registry
                /\ Commit(NativeFailed(looked, NotDefined("Nemesis")), ev)
           ELSE /\ registry' = def_class(registry, "Response", "Response",
                                         (CHOOSE m \in parent : TRUE).type, "none")
                /\ Commit(NativeOk([looked EXCEPT !.cell = ScopedMut(@)]), ev)
    /\ nativeRuns' = [nativeRuns EXCEPT ![Top.path] = @ + 1]
    /\ UNCHANGED <<sourceRuns, result>>
    /\ UNCHANGED <<vmVars, regexpVars>>

\* A fresh interpreter, the gem not yet initialised
InitNemesis == NewState(GemPaths) /\ Created /\ NoRegexp

NextNemesis ==
    \/ \E nemesis, response \in GemSources : GemInit(nemesis, response)
    \/ \E n \in GemNames : GemRequire(n)
    \/ NemesisRequire
    \/ ResponseRequire
    \/ EvalSource
    \/ ReturnNested
    \/ ReturnToHost

SpecNemesis == InitNemesis /\ [][NextNemesis]_vars

-----------------------------------------------------------------------------
(* Interpreter lifecycle: shared ownership of the state and the VM instance *)

\* How many handles the host holds at most
MaxHandles == 2
\* How deep the protection stack grows at most
MaxArena == 2
\* How many savepoints the host itself keeps open at most
MaxSaves == 2
\* How deep current_exception nests (an inspection call raising again)
MaxNest == 2

Ok == <<"Ok">>
Err(e) == <<"Err", e>>
None == <<"None">>
Some(x) == <<"Some">> \o x

\* Rc::clone: one more owner
RcClone(n) == n + 1
\* dropping an Rc: one owner less
RcDrop(n) == n - 1
\* mem::transmute between Mrb and the raw pointer, and mem::forget: the count stays
MemTransmute(n) == n
MemForget(n) == n

NoOps == ops = <<>>
TopOp == ops[Len(ops)]

\* the handle a running create() holds in its local `interp`
LocalHandles == IF \E k \in 1..Len(ops) : ops[k].op = "create" THEN 1 ELSE 0

OpFrame(op, pc, e) ==
    [op |-> op, pc |-> pc, exc0 |-> e, exception |-> <<>>, backtrace |-> <<>>,
     ret |-> <<>>,
     log |-> <<>>]     \* what the call has done to the VM so far

\* create_arena_savepoint: record the current depth
ArenaSavepoint(owner) == [index |-> arena, owner |-> owner]

\* the savepoints with the innermost one restored (ArenaIndex::restore, or the
\* savepoint going out of scope)
PopSave(sv) == SubSeq(sv, 1, Len(sv) - 1)
RestoredDepth(sv) == sv[Len(sv)].index

\* the last owner is gone: the state is dropped and its Drop closes the VM
Released(n) == n = 0

\* The count after the steps of from_user_data: transmute the slot into an Rc,
\* clone it, forget the transmuted one (interpreter.rs 203-210)
from_user_data_forgets_nothing(n) == RcDrop(RcClone(MemTransmute(n)))

from_user_data_count(n) == MemForget(RcClone(MemTransmute(n)))

\* interpreter.rs 137-156: mrb_open; on null fail with MrbError::New, else build
\* the state, move it into the user-data slot and take it back as `interp`
CreateOpen(allocated) ==
    /\ vm = "none"
    /\ NoOps
    /\ IF allocated
       THEN /\ vm' = "open"
            /\ strong' = MemTransmute(MemTransmute(1))
            /\ ud' = "ptr"
            /\ ops' = <<OpFrame("create", "kernel", NoExc)>>
            /\ UNCHANGED last
       ELSE /\ last' = [op |-> "create", value |-> Err("New"), at |-> "mrb_open"]
            /\ UNCHANGED <<vm, strong, ud, ops>>
    /\ UNCHANGED <<closes, held, arena, saves, exc, reqVars, regexpVars>>

\* an error return of create(): the locals go out of scope, `interp` is the
\* only owner, so the state is dropped and the VM closed
CreateFails(sv) ==
    /\ ops' = <<>>
    /\ saves' = sv
    /\ strong' = RcDrop(strong)
    /\ vm' = IF Released(RcDrop(strong)) THEN "closed" ELSE vm
    /\ closes' = IF Released(RcDrop(strong)) THEN closes + 1 ELSE closes
    /\ last' = [op |-> "create", value |-> Err("New"), at |-> TopOp.pc]

\* a create() that defines LoadError without having defined ScriptError
NextDefine_skips_script_error(pc) ==
    CASE pc = "kernel" -> "load_error"
      [] pc = "script_error" -> "load_error"
      [] pc = "load_error" -> "arena"

NextDefine(pc) ==
    CASE pc = "kernel" -> "script_error"
      [] pc = "script_error" -> "load_error"
      [] pc = "load_error" -> "arena"

\* what the step of create() at pc does to the VM (interpreter.rs 161-184):
\* the function or class it defines, with its superclass, or the call it makes
CreateStep(pc) ==
    CASE pc = "kernel" -> [step |-> "Kernel#require", super |-> "none"]
      [] pc = "script_error" -> [step |-> "ScriptError", super |-> "Exception"]
      [] pc = "load_error" -> [step |-> "LoadError", super |-> "ScriptError"]
      [] pc = "arena" -> [step |-> "create_arena_savepoint", super |-> "none"]
      [] pc = "eval" -> [step |-> "eval", super |-> "none"]
      [] pc = "restore" -> [step |-> "restore", super |-> "none"]
      [] pc = "gc" -> [step |-> "full_gc", super |-> "none"]

\* the running create() has done its step and goes on at pc `next`
Stepped(next) ==
    [ops EXCEPT ![Len(ops)].pc = next,
                ![Len(ops)].log = Append(@, CreateStep(TopOp.pc))]

\* interpreter.rs 161-174: define Kernel#require, then ScriptError, then LoadError
CreateDefine(defined) ==
    /\ ~NoOps
    /\ TopOp.op = "create"
    /\ TopOp.pc \in {"kernel", "script_error", "load_error"}
    /\ IF defined
       THEN /\ ops' = Stepped(NextDefine(TopOp.pc))
            /\ UNCHANGED <<saves, strong, vm, closes, last>>
       ELSE CreateFails(saves)
    /\ UNCHANGED <<held, ud, arena, exc, reqVars, regexpVars>>

\* interpreter.rs 181: let arena = interp.create_arena_savepoint()
CreateArena ==
    /\ ~NoOps
    /\ TopOp.op = "create"
    /\ TopOp.pc = "arena"
    /\ saves' = Append(saves, ArenaSavepoint("create"))
    /\ ops' = Stepped("eval")
    /\ UNCHANGED <<vm, closes, strong, held, ud, arena, last, exc, reqVars, regexpVars>>

\* an eval that failed while the savepoint of create was open, the savepoint
\* never being restored
CreateEvalFails_leaks(grown) ==
    /\ arena' = grown
    /\ CreateFails(saves)

\* interpreter.rs 182 (Err): the savepoint goes out of scope, then `interp`
CreateEvalFails(grown) ==
    /\ arena' = RestoredDepth(saves)
    /\ CreateFails(PopSave(saves))

\* interpreter.rs 182: interp.eval(""), which leaves `garbage` values protected
CreateEval(evaluated, garbage) ==
    /\ ~NoOps
    /\ TopOp.op = "create"
    /\ TopOp.pc = "eval"
    /\ arena + garbage <= MaxArena
    /\ IF evaluated
       THEN /\ arena' = arena + garbage
            /\ ops' = Stepped("restore")
            /\ UNCHANGED <<saves, strong, vm, closes, last>>
       ELSE CreateEvalFails(arena + garbage)
    /\ UNCHANGED <<held, ud, exc, reqVars, regexpVars>>

\* an arena.restore() that forgets the savepoint without resetting the depth
CreateRestore_keeps_depth ==
    /\ ~NoOps
    /\ TopOp.op = "create"
    /\ TopOp.pc = "restore"
    /\ saves' = PopSave(saves)
    /\ ops' = Stepped("gc")
    /\ UNCHANGED <<vm, closes, strong, held, ud, arena, last, exc, reqVars, regexpVars>>

\* interpreter.rs 183: arena.restore()
CreateRestore ==
    /\ ~NoOps
    /\ TopOp.op = "create"
    /\ TopOp.pc = "restore"
    /\ arena' = RestoredDepth(saves)
    /\ saves' = PopSave(saves)
    /\ ops' = Stepped("gc")
    /\ UNCHANGED <<vm, closes, strong, held, ud, last, exc, reqVars, regexpVars>>

\* interpreter.rs 184: interp.full_gc()
CreateGc ==
    /\ ~NoOps
    /\ TopOp.op = "create"
    /\ TopOp.pc = "gc"
    /\ ops' = Stepped("return")
    /\ UNCHANGED <<vm, closes, strong, held, ud, arena, saves, last, exc, reqVars, regexpVars>>

\* interpreter.rs 185: Ok(interp), the handle moves to the host
CreateReturn ==
    /\ ~NoOps
    /\ TopOp.op = "create"
    /\ TopOp.pc = "return"
    /\ ops' = <<>>
    /\ held' = held + 1
    /\ last' = [op |-> "create", value |-> Ok, at |-> "return"]
    /\ UNCHANGED <<vm, closes, strong, ud, arena, saves, exc, reqVars, regexpVars>>

\* a from_user_data that checks the VM pointer only
Uninitialized_ignores_ud(null, u) == null

\* interpreter.rs 191 and 196: mrb.is_null(), then (*mrb).ud.is_null()
Uninitialized(null, u) == null \/ u = "null"

\* the return of from_user_data that is taken: at the first check, at the
\* second, or at the end
ReturnSite(null, u) ==
    IF null THEN "mrb null"
    ELSE IF Uninitialized(null, u) THEN "ud null" ELSE "return"

\* Interpreter::from_user_data(mrb), with a null pointer or the pointer of the
\* open VM (interpreter.rs 190-214)
FromUserData(null) ==
    /\ NoOps
    /\ null \/ vm = "open"
    /\ held < MaxHandles
    /\ IF Uninitialized(null, ud)
       THEN /\ last' = [op |-> "from_user_data", value |-> Err("Uninitialized"),
                         at |-> ReturnSite(null, ud)]
            /\ UNCHANGED <<strong, held>>
       ELSE /\ strong' = from_user_data_count(strong)
            /\ held' = held + 1
            /\ last' = [op |-> "from_user_data", value |-> Ok,
                         at |-> ReturnSite(null, ud)]
    /\ UNCHANGED <<vm, closes, ud, arena, saves, ops, exc, reqVars, regexpVars>>

\* The host overwrites the user-data slot: (*mrb).ud = std::ptr::null_mut()
\* (tests::from_user_data_null_user_data)
ClearUserData ==
    /\ NoOps
    /\ vm = "open"
    /\ ud = "ptr"
    /\ ud' = "null"
    /\ last' = [op |-> "clear_ud", value |-> Ok, at |-> "return"]
    /\ UNCHANGED <<vm, closes, strong, held, arena, saves, ops, exc, reqVars, regexpVars>>

\* The host clones a handle it holds: Rc::clone(&interp)
CloneHandle ==
    /\ NoOps
    /\ held >= 1
    /\ held < MaxHandles
    /\ strong' = RcClone(strong)
    /\ held' = held + 1
    /\ last' = [op |-> "clone", value |-> Ok, at |-> "return"]
    /\ UNCHANGED <<vm, closes, ud, arena, saves, ops, exc, reqVars, regexpVars>>

\* The host drops a handle it holds; the savepoints it opened do not outlive
\* its last handle
DropHandle ==
    /\ NoOps
    /\ held >= 1
    /\ held = 1 => saves = <<>>
    /\ held' = held - 1
    /\ strong' = RcDrop(strong)
    /\ vm' = IF Released(RcDrop(strong)) THEN "closed" ELSE vm
    /\ closes' = IF Released(RcDrop(strong)) THEN closes + 1 ELSE closes
    /\ last' = [op |-> "drop", value |-> Ok, at |-> "return"]
    /\ UNCHANGED <<ud, arena, saves, ops, exc, reqVars, regexpVars>>

-----------------------------------------------------------------------------
(* Arena savepoints taken by the host (GarbageCollection, spec 4.2) *)

\* interp.create_arena_savepoint()
ArenaOpen ==
    /\ NoOps
    /\ vm = "open"
    /\ held >= 1
    /\ Len(saves) < MaxSaves
    /\ saves' = Append(saves, ArenaSavepoint("host"))
    /\ last' = [op |-> "open", value |-> Ok, at |-> "return"]
    /\ UNCHANGED <<vm, closes, strong, held, ud, arena, ops, exc, reqVars, regexpVars>>

\* The host creates a VM value, which the VM protects
Protect ==
    /\ NoOps
    /\ vm = "open"
    /\ held >= 1
    /\ arena < MaxArena
    /\ arena' = arena + 1
    /\ last' = [op |-> "protect", value |-> Ok, at |-> "return"]
    /\ UNCHANGED <<vm, closes, strong, held, ud, saves, ops, exc, reqVars, regexpVars>>

\* arena.restore() on the innermost open savepoint
ArenaRestore ==
    /\ NoOps
    /\ vm = "open"
    /\ saves # <<>>
    /\ arena' = RestoredDepth(saves)
    /\ saves' = PopSave(saves)
    /\ last' = [op |-> "restore", value |-> Ok, at |-> "return"]
    /\ UNCHANGED <<vm, closes, strong, held, ud, ops, exc, reqVars, regexpVars>>

-----------------------------------------------------------------------------
(* Exception extraction: MrbApi::current_exception *)

\* The exceptions VM code raises
Exceptions ==
    { [class |-> "ArgumentError", message |-> <<"waffles">>],
      LoadError(<<"non-existent-source">>) }

\* what a failing inspection call raises
InspectionError == [class |-> "NoMethodError", message |-> <<"undefined method">>]

\* exc.inspect and exc.backtrace, as the VM answers them
Inspect(e) == <<"(eval):1: ">> \o e.message \o <<" (", e.class, ")">>
Backtrace(e) == << <<"(eval):1">> >>

\* backtrace.unshift(exception)
Unshift(lines, line) == <<line>> \o lines

\* backtrace.join("\n")
RECURSIVE Join(_, _)
Join(lines, sep) ==
    IF lines = <<>> THEN <<>>
    ELSE IF Len(lines) = 1 THEN lines[1]
    ELSE lines[1] \o <<sep>> \o Join(Tail(lines), sep)

\* A call into the VM by the host raises and leaves the exception pending
VmRaise(e) ==
    /\ NoOps
    /\ vm = "open"
    /\ held >= 1
    /\ exc = NoExc
    /\ exc' = e
    /\ last' = [op |-> "raise", value |-> Ok, at |-> "return"]
    /\ UNCHANGED <<vm, closes, strong, held, ud, arena, saves, ops, reqVars, regexpVars>>

\* a current_exception that reads the slot and leaves the exception in it
TakeException_keeps(e) == e

\* interpreter.rs 251: (*mrb).exc = std::ptr::null_mut()
TakeException(e) == NoExc

\* interpreter.rs 238-257: open the savepoint, take the exception out of the
\* slot; with none pending return None
EnterCurrentException(frames) ==
    /\ saves' = Append(saves, ArenaSavepoint("current_exception"))
    /\ exc' = TakeException(exc)
    /\ ops' = Append(frames,
                     IF exc = NoExc
                     THEN [OpFrame("current_exception", "done", exc) EXCEPT
                              !.ret = None]
                     ELSE OpFrame("current_exception", "inspect", exc))

\* The host calls interp.current_exception()
CurrentException ==
    /\ NoOps
    /\ vm = "open"
    /\ held >= 1
    /\ EnterCurrentException(ops)
    /\ UNCHANGED <<vm, closes, strong, held, ud, arena, last, reqVars, regexpVars>>

\* interpreter.rs 268-276, the calls that succeed: inspect, backtrace, unshift
\* and join, the last one giving the value returned
FuncallOk(f) ==
    CASE f.pc = "inspect" ->
             [f EXCEPT !.pc = "backtrace", !.exception = Inspect(f.exc0)]
      [] f.pc = "backtrace" ->
             [f EXCEPT !.pc = "unshift", !.backtrace = Backtrace(f.exc0)]
      [] f.pc = "unshift" ->
             [f EXCEPT !.pc = "join", !.backtrace = Unshift(@, f.exception)]
      [] f.pc = "join" ->
             [f EXCEPT !.pc = "done", !.ret = Some(Join(f.backtrace, "\n"))]

\* interpreter.rs 268-276: one call into the VM on the exception object.  It
\* may protect a new value.  If it raises, funcall takes the error out of the
\* VM by calling current_exception again (interpreter.rs 246-250).
Funcall(raises, value) ==
    /\ ~NoOps
    /\ TopOp.op = "current_exception"
    /\ TopOp.pc \in {"inspect", "backtrace", "unshift", "join"}
    /\ arena + value <= MaxArena
    /\ arena' = arena + value
    /\ IF raises
       THEN /\ Len(ops) < MaxNest
            /\ saves' = Append(saves, ArenaSavepoint("current_exception"))
            /\ exc' = TakeException(InspectionError)
            /\ ops' = Append([ops EXCEPT ![Len(ops)].pc = "failed"],
                             OpFrame("current_exception", "inspect", InspectionError))
       ELSE /\ ops' = [ops EXCEPT ![Len(ops)] = FuncallOk(@)]
            /\ UNCHANGED <<saves, exc>>
    /\ UNCHANGED <<vm, closes, strong, held, ud, last, reqVars, regexpVars>>

\* current_exception returns: its savepoint goes out of scope.  The funcall
\* that called it returns Err, on which the outer current_exception returns
\* None (`.ok()?`).
CurrentExceptionReturn ==
    /\ ~NoOps
    /\ TopOp.op = "current_exception"
    /\ TopOp.pc = "done"
    /\ arena' = RestoredDepth(saves)
    /\ saves' = PopSave(saves)
    /\ IF Len(ops) = 1
       THEN /\ ops' = <<>>
            /\ last' = [op |-> "current_exception", value |-> TopOp.ret,
                         at |-> IF TopOp.exc0 = NoExc THEN "no exception"
                                ELSE IF TopOp.ret = None THEN "funcall failed"
                                ELSE "return"]
       ELSE /\ ops' = [SubSeq(ops, 1, Len(ops) - 1) EXCEPT
                          ![Len(ops) - 1].pc = "done", ![Len(ops) - 1].ret = None]
            /\ UNCHANGED last
    /\ UNCHANGED <<vm, closes, strong, held, ud, exc, reqVars, regexpVars>>

\* Before Interpreter::create(): no VM, no state
InitVm ==
    /\ InitState
    /\ vm = "none"
    /\ closes = 0
    /\ strong = 0
    /\ held = 0
    /\ ud = "null"
    /\ arena = 0
    /\ saves = <<>>
    /\ ops = <<>>
    /\ last = [op |-> "none", value |-> <<>>, at |-> "return"]
    /\ NoRegexp

NextVm ==
    \/ \E allocated \in BOOLEAN : CreateOpen(allocated)
    \/ \E defined \in BOOLEAN : CreateDefine(defined)
    \/ CreateArena
    \/ \E evaluated \in BOOLEAN, garbage \in 0..1 : CreateEval(evaluated, garbage)
    \/ CreateRestore
    \/ CreateGc
    \/ CreateReturn
    \/ \E null \in BOOLEAN : FromUserData(null)
    \/ ClearUserData
    \/ CloneHandle
    \/ DropHandle
    \/ ArenaOpen
    \/ Protect
    \/ ArenaRestore
    \/ \E e \in Exceptions : VmRaise(e)
    \/ CurrentException
    \/ \E raises \in BOOLEAN, value \in 0..1 : Funcall(raises, value)
    \/ CurrentExceptionReturn

SpecVm == InitVm /\ [][NextVm]_vars

-----------------------------------------------------------------------------
(* Regexp#names (src/mruby/src/extn/core/regexp/names.rs) *)

\* How many capture groups a regexp has at most
MaxGroups == 4

\* The names capture groups are given
GroupNames == { "x", "y", "z" }

\* u32::max_value(), scaled to the model: above every group index
u32_max_value == MaxGroups + 1

\* The regexps: every group is unnamed ("") or bears one of the names
Groupings == [1..MaxGroups -> GroupNames \cup {""}]

RECURSIVE Ascending(_)
Ascending(S) ==
    IF S = {} THEN <<>>
    ELSE LET m == CHOOSE x \in S : \A y \in S : x <= y
         IN  <<m>> \o Ascending(S \ {m})

\* regex.capture_names(): one entry per name, with the indexes of the groups
\* bearing it; the entries come in the order `order` of the name table
capture_names(grouping, order) ==
    [k \in 1..Len(order) |->
        [name |-> order[k],
         indexes |-> Ascending({g \in 1..MaxGroups : grouping[g] = order[k]})]]

Orders(S) ==
    { o \in [1..Cardinality(S) -> S] : \A j, k \in DOMAIN o : o[j] = o[k] => j = k }

Regexes ==
    UNION { { capture_names(g, o) : o \in Orders({g[i] : i \in 1..MaxGroups} \ {""}) } :
            g \in Groupings }

\* u32::min
min(a, b) == IF a <= b THEN a ELSE b

\* a comparison key that takes the largest index of a name
RECURSIVE largest(_, _)
largest(indexes, init) ==
    IF indexes = <<>> THEN init
    ELSE largest(Tail(indexes), IF init >= Head(indexes) THEN init ELSE Head(indexes))

smallest_as_largest(indexes) == largest(indexes, 0)

\* iter().fold(init, |a, &b| a.min(b))
RECURSIVE fold_min(_, _)
fold_min(indexes, init) ==
    IF indexes = <<>> THEN init
    ELSE fold_min(Tail(indexes), min(init, Head(indexes)))

\* names.rs 19-21: .iter().fold(u32::max_value(), |a, &b| a.min(b))
smallest(indexes) == fold_min(indexes, u32_max_value)

\* u32::partial_cmp
partial_cmp(a, b) == IF a < b THEN "Less" ELSE IF a = b THEN "Equal" ELSE "Greater"

\* names.rs 18-23: the comparison of two entries, by their smallest indexes
compare(a, b) == partial_cmp(smallest(a.indexes), smallest(b.indexes))

\* Vec::sort_by, a stable sort: each entry goes behind the entries before it
\* that are not greater
RECURSIVE insert(_, _)
insert(sorted, e) ==
    IF sorted = <<>> THEN <<e>>
    ELSE LET l == sorted[Len(sorted)]
         IN  IF compare(l, e) = "Greater"
             THEN Append(insert(SubSeq(sorted, 1, Len(sorted) - 1), e), l)
             ELSE Append(sorted, e)

RECURSIVE sort_by(_)
sort_by(entries) ==
    IF entries = <<>> THEN <<>>
    ELSE insert(sort_by(SubSeq(entries, 1, Len(entries) - 1)), entries[Len(entries)])

\* names.rs 24-28: push every name that the list does not contain yet
RECURSIVE push_new(_, _)
push_new(list, entries) ==
    IF entries = <<>> THEN list
    ELSE push_new(IF \E k \in 1..Len(list) : list[k] = Head(entries).name
                  THEN list ELSE Append(list, Head(entries).name),
                  Tail(entries))

\* names::method(interp, value): Error::Fatal if the value is no Regexp, else
\* the names of its capture groups
method(is_regexp) ==
    /\ ~names.called
    /\ names' = [called |-> TRUE,
                 value |-> IF is_regexp
                           THEN <<"Ok", push_new(<<>>, sort_by(regex))>>
                           ELSE Err("Fatal")]
    /\ UNCHANGED <<regex, reqVars, exc, vmVars>>

\* A Regexp in a fresh interpreter
InitNames ==
    /\ InitState
    /\ Created
    /\ regex \in Regexes
    /\ names = NotCalled

NextNames == \E is_regexp \in BOOLEAN : method(is_regexp)

SpecNames == InitNames /\ [][NextNames]_vars

-----------------------------------------------------------------------------
(* Vocabulary of the properties *)

\* the innermost call of require has run to its return
Returned == ~Idle /\ Top.pc = "done"

\* what has run and been written since call f was entered
Work(f) == SubSeq(trace, f.work0 + 1, Len(trace))

Ran(f, kind, path) ==
    \E k \in 1..Len(Work(f)) : Work(f)[k] = [ev |-> kind, path |-> path]

\* the index of the first candidate of `name` that is a file in v, 0 if none is
FirstFileIdx(name, v) ==
    IF \E i \in 1..Len(Files(name)) : is_file(v, Files(name)[i])
    THEN CHOOSE i \in 1..Len(Files(name)) :
            /\ is_file(v, Files(name)[i])
            /\ \A j \in 1..(i - 1) : ~is_file(v, Files(name)[j])
    ELSE 0

Required(v, p) == v[p].meta.already_required

-----------------------------------------------------------------------------
(* C1: load-once idempotence.  A require that returns without raising, whose   *)
(* first file candidate P was not yet required, returns true and has run P's   *)
(* native loader or source; one whose first file candidate P was already       *)
(* required returns false, has run nothing and has left the Vfs unchanged.     *)
C1_LoadOnce ==
    (Returned /\ exc = NoExc /\ FirstFileIdx(Top.name, Top.vfs0) # 0) =>
        LET P == Files(Top.name)[FirstFileIdx(Top.name, Top.vfs0)]
        IN  IF Required(Top.vfs0, P)
            THEN Top.ret = "false" /\ Work(Top) = <<>> /\ vfs = Top.vfs0
            ELSE Top.ret = "true" /\ (Ran(Top, "native", P) \/ Ran(Top, "source", P))

(* C2: at-most-once loading.  Over any sequence of requires, failed and nested *)
(* ones included, the native loader of a path is invoked at most once and its  *)
(* source is evaluated at most once.                                           *)
C2_AtMostOnce ==
    \A p \in FilePaths : nativeRuns[p] <= 1 /\ sourceRuns[p] <= 1

\* the position of the first event of this kind and path in the work of call f,
\* 0 if there is none
FirstAt(f, kind, path) ==
    IF Ran(f, kind, path)
    THEN CHOOSE k \in 1..Len(Work(f)) :
            /\ Work(f)[k] = [ev |-> kind, path |-> path]
            /\ \A j \in 1..(k - 1) : Work(f)[j] # [ev |-> kind, path |-> path]
    ELSE 0

(* C3: native-then-source ordering.  A require whose first file candidate P is *)
(* not yet required and carries a native loader and a source that both        *)
(* succeed, and that returns without raising, has invoked the loader, then     *)
(* evaluated the source, then marked P required, and returns true.             *)
C3_NativeThenSource ==
    (Returned /\ exc = NoExc /\ FirstFileIdx(Top.name, Top.vfs0) # 0) =>
        LET P == Files(Top.name)[FirstFileIdx(Top.name, Top.vfs0)]
            e == Top.vfs0[P]
        IN  (~Required(Top.vfs0, P) /\ e.meta.require = BehOk /\ e.content = BehOk) =>
                /\ FirstAt(Top, "native", P) = 1
                /\ FirstAt(Top, "source", P) = 2
                /\ FirstAt(Top, "mark", P) = 3
                /\ Required(vfs, P)
                /\ Top.ret = "true"

\* no candidate of `name` is a file in v: each is missing or a directory
NoCandidateIsFile(name, v) ==
    \A i \in 1..Len(Files(name)) : ~is_file(v, Files(name)[i])

(* C4: a require raises LoadError if and only if no candidate of the requested *)
(* name is a file in the Vfs; the message is "cannot load such file -- N" with *)
(* the requested name N, and then nothing was run and no metadata was written. *)
C4_LoadErrorIffNoFile ==
    Returned =>
        /\ (exc.class = "LoadError") <=> NoCandidateIsFile(Top.name, Top.vfs0)
        /\ NoCandidateIsFile(Top.name, Top.vfs0) =>
              /\ exc.message = <<"cannot load such file -- ">> \o Top.name
              /\ Work(Top) = <<>>
              /\ vfs = Top.vfs0

\* a require of a directory has raised LoadError
C4_Witness ==
    /\ Returned
    /\ Top.name \in Dirs
    /\ exc.class = "LoadError"

\* this step ends the load of candidate p with success: its source has just
\* been evaluated, after its native loader if it has one
LoadCompletes(p) ==
    /\ ~Idle
    /\ \/ /\ Top.pc = "source" /\ Top.path = p /\ vfs[p].content = BehOk
          /\ Top.metadata.require # NoLoader => Ran(Top, "native", p)
       \/ /\ Len(stack) > 1 /\ Top.pc = "done" /\ exc = NoExc
          /\ LET caller == stack[Len(stack) - 1]
             IN  /\ caller.pc = "sourceWait" /\ caller.path = p
                 /\ Ran(caller, "source", p)
                 /\ caller.metadata.require # NoLoader => Ran(caller, "native", p)

(* C5: already_required is monotonic.  No step resets a true flag, and a flag  *)
(* becomes true only in the step of a require that ends the load of that       *)
(* candidate with success.                                                     *)
C5_Monotonic ==
    [][\A p \in FilePaths :
          /\ Required(vfs, p) => Required(vfs', p)
          /\ (~Required(vfs, p) /\ Required(vfs', p)) => LoadCompletes(p)]_vars

\* a path is already required while a later require is failing
C5_Witness ==
    /\ Returned
    /\ exc # NoExc
    /\ \E p \in FilePaths : Required(vfs, p)

-----------------------------------------------------------------------------
(* C6: exception extraction clears the slot.  Whenever current_exception is    *)
(* about to make an inspection call on the exception, and whenever it returns  *)
(* (an exception pending or not, an inspection call failing or not), the VM's  *)
(* current-exception slot is empty.                                            *)
C6_SlotCleared ==
    /\ (~NoOps /\ TopOp.op = "current_exception"
               /\ TopOp.pc \in {"inspect", "backtrace", "unshift", "join", "done"})
          => exc = NoExc
    /\ (NoOps /\ last.op = "current_exception") => exc = NoExc

\* current_exception has returned for a pending exception whose inspection raised
C6_Witness ==
    /\ NoOps
    /\ last.op = "current_exception"
    /\ last.at = "funcall failed"
    /\ exc = NoExc

(* C7: current_exception returns None if and only if no exception was pending  *)
(* at entry; with one pending it returns the inspection text and the backtrace *)
(* lines joined with newlines.                                                 *)
C7_NoneIffNonePending ==
    (~NoOps /\ TopOp.op = "current_exception" /\ TopOp.pc = "done") =>
        /\ (TopOp.ret = None) <=> (TopOp.exc0 = NoExc)
        /\ TopOp.exc0 # NoExc =>
              TopOp.ret = Some(Join(<<Inspect(TopOp.exc0)>> \o Backtrace(TopOp.exc0),
                                    "\n"))

(* C8: arena balance.  Savepoints nest (an inner one records no smaller depth  *)
(* than an outer one, and the depth is never below the innermost record), each *)
(* restore closes the innermost savepoint and sets the depth to exactly the    *)
(* value that savepoint recorded; so the restore of the outermost one gives    *)
(* back the depth before the first open.                                       *)
C8_ArenaBalance ==
    [][/\ \A i, j \in 1..Len(saves) : i <= j => saves[i].index <= saves[j].index
       /\ saves # <<>> => saves[Len(saves)].index <= arena
       /\ Len(saves') < Len(saves) =>
             /\ saves' = SubSeq(saves, 1, Len(saves) - 1)
             /\ arena' = saves[Len(saves)].index]_vars

\* an inner savepoint, opened after work in the outer scope, has been restored
C8_Witness ==
    /\ last.op = "restore"
    /\ Len(saves) = 1
    /\ arena > saves[1].index

\* the active calls that hold a savepoint of their own
HoldsSavepoint(f) ==
    \/ f.op = "current_exception"
    \/ f.op = "create" /\ f.pc \in {"eval", "restore"}

(* C9: every savepoint create() and current_exception() open is restored       *)
(* before they return, on every exit path: the open savepoints that are not    *)
(* the host's are exactly those of the calls still running, and once create()  *)
(* has returned, with a handle or with an error, no savepoint is open and the  *)
(* protection stack has its initial depth; a closed VM was closed once.        *)
C9_SavepointsRestored ==
    /\ Cardinality({k \in 1..Len(saves) : saves[k].owner # "host"})
          = Cardinality({k \in 1..Len(ops) : HoldsSavepoint(ops[k])})
    /\ (NoOps /\ last.op = "create") => (saves = <<>> /\ arena = 0)
    /\ vm = "closed" => (saves = <<>> /\ closes = 1)

\* create() has returned the error of its bootstrap evaluation
C9_Witness ==
    /\ NoOps
    /\ last.op = "create"
    /\ last.at = "eval"
    /\ vm = "closed"

(* C10: single close.  The shared count is the number of handles held (the     *)
(* copy in the user-data slot and the transient of from_user_data are no       *)
(* owners); the VM is open exactly while a handle is held, and it is closed    *)
(* once, never twice.                                                          *)
C10_SingleClose ==
    /\ strong = held + LocalHandles
    /\ vm = "open" <=> held + LocalHandles > 0
    /\ vm = "closed" <=> closes = 1
    /\ closes <= 1

\* the VM was closed by the drop of the last handle, the user-data slot still
\* holding its copy
C10_Witness ==
    /\ vm = "closed"
    /\ closes = 1
    /\ last.op = "drop"
    /\ held = 0
    /\ ud = "ptr"

\* this step is a call of from_user_data by the host: the only operation that
\* starts and ends with no call active and reports itself as from_user_data
FromUserDataStep == NoOps /\ ops' = <<>> /\ last'.op = "from_user_data"

(* C11: from_user_data fails with Uninitialized when the VM pointer is null    *)
(* and when the user-data slot of the VM is null, and returns a handle (one    *)
(* more owner) on an open VM whose slot create() has filled; a failing call    *)
(* leaves the shared count, the handles held and the VM as they were.          *)
C11_Uninitialized ==
    [][FromUserDataStep =>
          /\ last'.at = "mrb null" => last'.value = Err("Uninitialized")
          /\ (last'.at # "mrb null" /\ ud = "null") =>
                last'.value = Err("Uninitialized")
          /\ (last'.at # "mrb null" /\ ud = "ptr") =>
                /\ last'.value = Ok
                /\ strong' = strong + 1
                /\ held' = held + 1
          /\ last'.value # Ok =>
                /\ strong' = strong
                /\ held' = held
                /\ vm' = vm
                /\ closes' = closes]_vars

\* from_user_data has failed on the open VM of a handle the host still holds,
\* whose user-data slot was overwritten with null
C11_Witness ==
    /\ NoOps
    /\ last.op = "from_user_data"
    /\ last.at = "ud null"
    /\ last.value = Err("Uninitialized")
    /\ vm = "open"
    /\ strong = 1
    /\ held = 1

-----------------------------------------------------------------------------
\* the candidates the specification gives a name: root/N then root/N.rb for a
\* relative name, N alone for an absolute one
StatedCandidates(name) ==
    IF is_relative(name)
    THEN << RUBY_LOAD_PATH \o <<"/">> \o name,
            RUBY_LOAD_PATH \o <<"/">> \o name \o <<".rb">> >>
    ELSE << name >>

\* no loader and no source registered when call f was entered requires again
NoNesting(f) ==
    \A p \in FilePaths :
        /\ f.vfs0[p].content.op # "require"
        /\ f.vfs0[p].meta.require.op # "require"

(* C12: candidate set.  A require whose loaded code requires nothing further   *)
(* runs and marks only candidates of its name: root/N and then root/N.rb for a *)
(* relative N, and N alone for an absolute N, every other path of the Vfs      *)
(* being left as it was; and a require of an absolute path that is a file      *)
(* returns true if the path was not yet required and false if it was.          *)
C12_CandidateSet ==
    (Returned /\ NoNesting(Top)) =>
        LET c == StatedCandidates(Top.name)
            w == Work(Top)
        IN  /\ \A k \in 1..Len(w) : \E i \in 1..Len(c) : w[k].path = c[i]
            /\ \A j, k \in 1..Len(w) :
                  (j < k /\ Len(c) = 2 /\ w[j].path = c[2]) => w[k].path = c[2]
            /\ \A p \in FilePaths :
                  (\A i \in 1..Len(c) : p # c[i]) => vfs[p] = Top.vfs0[p]
            /\ (~is_relative(Top.name) /\ is_file(Top.vfs0, Top.name)
                  /\ exc = NoExc) =>
                  (Top.ret = "true" <=> ~Required(Top.vfs0, Top.name))

-----------------------------------------------------------------------------
\* the steps of create() between the allocation and the return of the handle
CreateOrder ==
    << [step |-> "Kernel#require", super |-> "none"],
       [step |-> "ScriptError", super |-> "Exception"],
       [step |-> "LoadError", super |-> "ScriptError"],
       [step |-> "create_arena_savepoint", super |-> "none"],
       [step |-> "eval", super |-> "none"],
       [step |-> "restore", super |-> "none"],
       [step |-> "full_gc", super |-> "none"] >>

\* every running create() has done a prefix of the steps, in their order
InCreateOrder(o) ==
    \A k \in 1..Len(o) :
        o[k].op = "create" =>
            /\ Len(o[k].log) <= Len(CreateOrder)
            /\ o[k].log = SubSeq(CreateOrder, 1, Len(o[k].log))

\* this step is a return of create() to the host
CreateReturns == last'.op = "create" /\ ops' = <<>> /\ last' # last

(* C13: create() fails with the initialization error, having taken no step and *)
(* giving no handle, when the allocation of the VM reports null.  Otherwise it *)
(* installs require, defines ScriptError under Exception and LoadError under   *)
(* ScriptError, opens a savepoint, evaluates once, restores the savepoint and  *)
(* runs a full collection, in this order, and gives the handle only after all  *)
(* of these steps.                                                             *)
C13_CreateOrder ==
    [][/\ InCreateOrder(ops) /\ InCreateOrder(ops')
       /\ (CreateReturns /\ NoOps) =>
             /\ vm = "none"
             /\ last'.value = Err("New")
             /\ vm' = vm /\ held' = held /\ strong' = strong
       /\ (CreateReturns /\ ~NoOps) =>
             IF last'.value = Ok
             THEN TopOp.log = CreateOrder /\ held' = held + 1
             ELSE last'.value = Err("New") /\ held' = held]_vars

\* create() has given the host its handle, after all of its steps
C13_Witness ==
    /\ NoOps
    /\ last = [op |-> "create", value |-> Ok, at |-> "return"]
    /\ held = 1
    /\ vm = "open"
    /\ arena = 0
    /\ saves = <<>>

-----------------------------------------------------------------------------
(* C14: a require that returns false did no new work.  Whichever candidates    *)
(* are files and whichever are already required, during a call that returns    *)
(* false no native loader was invoked, no source was evaluated and no          *)
(* metadata was written.                                                       *)
C14_FalseNoWork ==
    (Returned /\ Top.ret = "false") =>
        /\ Work(Top) = <<>>
        /\ vfs = Top.vfs0

-----------------------------------------------------------------------------
(* C15: EvalContext stack balance.  When a call of require returns, nested     *)
(* calls included and whatever it returns (true, false, LoadError, the error   *)
(* of a native loader or of a source), the eval-context stack is the one the   *)
(* call was entered with.                                                      *)
C15_ContextBalance ==
    Returned => ctx = Top.ctx0

-----------------------------------------------------------------------------
\* call f has returned because the native loader of its candidate failed
NativeLoaderFailed(f) ==
    /\ f.pc = "done" /\ f.ret = "nil"
    /\ f.metadata.require # NoLoader
    /\ ~Ran(f, "source", f.path)

\* call f has returned because the evaluation of its candidate failed
SourceEvalFailed(f) ==
    /\ f.pc = "done" /\ f.ret = "nil"
    /\ Ran(f, "source", f.path)

\* a require that comes to the candidate of f finds it a file not yet required
\* and goes on to load it
Eligible(f) ==
    LET st == Loop([frame |-> NewFrame(f.name, vfs, ctx, 0), vfs |-> vfs,
                    ctx |-> ctx, exc |-> NoExc, cell |-> cell], f.idx)
    IN  st.frame.path = f.path /\ st.frame.pc \in {"native", "source"}

(* C16: failed loads are not recorded.  When the native loader of a candidate  *)
(* fails, the call returns at that candidate with the error raised into the    *)
(* VM, the source not evaluated, no later candidate tried and the candidate    *)
(* not marked required (a loader that fails by itself is the last thing the    *)
(* call did).  When the loader succeeds and the evaluation of the source       *)
(* fails, the candidate is not marked required either.  In both cases a later  *)
(* require that reaches the candidate loads it again.                          *)
C16_FailedNotRecorded ==
    Returned =>
        /\ NativeLoaderFailed(Top) =>
              /\ exc = RaisedError(exc.message)
              /\ Top.path = Files(Top.name)[Top.idx]
              /\ ~Required(vfs, Top.path)
              /\ Eligible(Top)
              /\ Top.metadata.require = BehFail =>
                    Work(Top)[Len(Work(Top))] = [ev |-> "native", path |-> Top.path]
        /\ SourceEvalFailed(Top) =>
              /\ exc = RaisedError(exc.message)
              /\ Top.path = Files(Top.name)[Top.idx]
              /\ ~Required(vfs, Top.path)
              /\ Eligible(Top)

\* the native loader of a candidate has succeeded and its source has failed
C16_Witness ==
    /\ Returned
    /\ SourceEvalFailed(Top)
    /\ Top.metadata.require = BehOk
    /\ Ran(Top, "native", Top.path)
    /\ ~Required(vfs, Top.path)

-----------------------------------------------------------------------------
\* the specs the claim is about
NemesisRegistered(reg) == \E m \in reg.modules : m.name = "Nemesis"
ResponseRegistered(reg) ==
    \E c \in reg.classes : c.name = "Response" /\ c.enclosing = "Nemesis"

\* this step is an invocation of the native loader of nemesis/response.rb
ResponseLoaderRuns ==
    /\ ~Idle
    /\ Top.pc = "native"
    /\ Top.path = Resolve(ResponseRb)
    /\ nativeRuns'[Top.path] = nativeRuns[Top.path] + 1

\* the module spec is there only if the native loader of nemesis.rb has run,
\* and a returned require of nemesis/response that was issued with nemesis.rb
\* already required has raised nothing and has Response registered
LoadedInOrder ==
    /\ NemesisRegistered(registry) => nativeRuns[Resolve(NemesisRb)] >= 1
    /\ ResponseRegistered(registry) => NemesisRegistered(registry)
    /\ (Returned /\ Top.name = <<"nemesis", "/", "response">>
          /\ Required(Top.vfs0, Resolve(NemesisRb))) =>
          /\ exc = NoExc
          /\ Top.ret = (IF Required(Top.vfs0, Resolve(ResponseRb))
                        THEN "false" ELSE "true")
          /\ ResponseRegistered(registry)

(* C17: Nemesis load ordering.  With the gem initialised, an invocation of the *)
(* native loader of nemesis/response.rb registers the class Response enclosed  *)
(* in Nemesis and raises nothing if the module spec Nemesis is registered      *)
(* (which only the native loader of nemesis.rb does); otherwise it raises      *)
(* NotDefined("Nemesis"), the require returns and nothing is registered.  A    *)
(* require of nemesis/response issued once nemesis.rb is required succeeds.    *)
C17_NemesisOrder ==
    [][/\ LoadedInOrder /\ LoadedInOrder'
       /\ ResponseLoaderRuns =>
             IF NemesisRegistered(registry)
             THEN /\ ResponseRegistered(registry')
                  /\ exc' = NoExc
                  /\ stack'[Len(stack)].pc = "source"
             ELSE /\ exc' = RaisedError(NotDefined("Nemesis"))
                  /\ registry' = registry
                  /\ stack'[Len(stack)].pc = "done"
                  /\ ~Required(vfs', Resolve(ResponseRb))]_vars

\* nemesis/response was required too early and failed, then again after
\* nemesis, and Response is registered
C17_Witness ==
    /\ Returned
    /\ Top.name = <<"nemesis", "/", "response">>
    /\ Top.ret = "true"
    /\ nativeRuns[Resolve(ResponseRb)] = 2
    /\ Required(Top.vfs0, Resolve(NemesisRb))
    /\ ResponseRegistered(registry)

-----------------------------------------------------------------------------
\* the smallest index of the groups that bear the name n in the regexp
SmallestGroup(n) ==
    LET e == CHOOSE e \in {regex[k] : k \in 1..Len(regex)} : e.name = n
    IN  CHOOSE i \in {e.indexes[k] : k \in 1..Len(e.indexes)} :
            \A k \in 1..Len(e.indexes) : i <= e.indexes[k]

\* Regexp#names has returned a list
NamesReturned == names.called /\ names.value[1] = "Ok"

(* C18: Regexp#names.  Whatever groups bear which names, and in whatever order *)
(* the regexp gives its names, the list returned has every capture name of the *)
(* regexp exactly once, no other name, and the names in ascending order of the *)
(* smallest index of the groups bearing them.                                  *)
C18_Names ==
    NamesReturned =>
        LET list == names.value[2]
        IN  /\ \A k \in 1..Len(regex) :
                  Cardinality({j \in 1..Len(list) : list[j] = regex[k].name}) = 1
            /\ \A j \in 1..Len(list) : \E k \in 1..Len(regex) : list[j] = regex[k].name
            /\ \A j, k \in 1..Len(list) :
                  j < k => SmallestGroup(list[j]) < SmallestGroup(list[k])

\* three names, the first of the list bearing several groups, the regexp
\* giving them in another order
C18_Witness ==
    /\ NamesReturned
    /\ Len(names.value[2]) = 3
    /\ regex[1].name # names.value[2][1]
    /\ regex[3].name = names.value[2][1]
    /\ Len(regex[3].indexes) = 2

-----------------------------------------------------------------------------
\* a call of require is about to invoke a native loader or to evaluate a
\* source, or is waiting for a nested require made by one
CalledOut ==
    \E k \in 1..Len(stack) :
        stack[k].pc \in {"native", "nativeWait", "source", "sourceWait"}

(* C19: borrow exclusivity during require.  Whenever a call of require, at any *)
(* depth, invokes a native loader or evaluates a source, no borrow of the      *)
(* interpreter state is held, shared or exclusive; no borrow, in require or in *)
(* a loader taking the exclusive borrow, has ever met a conflicting one, and   *)
(* an exclusive borrow never coexists with another borrow.                     *)
C19_BorrowExclusivity ==
    /\ CalledOut => (cell.shared = 0 /\ ~cell.exclusive)
    /\ ~cell.conflict
    /\ cell.exclusive => cell.shared = 0

\* the loader of nemesis/response.rb has taken its exclusive borrow inside a
\* require nested in the source of nemesis.rb
C19_Witness ==
    /\ Len(stack) = 2
    /\ stack[1].pc = "sourceWait"
    /\ Top.pc = "source"
    /\ Top.path = Resolve(ResponseRb)
    /\ ResponseRegistered(registry)
    /\ cell = NoBorrow

-----------------------------------------------------------------------------
\* this step of require writes the metadata of p: it marks p required
Writes(p) == ~Idle /\ ~Required(vfs, p) /\ Required(vfs', p)

\* this step is a native loader's own registration of a file
LoaderRegisters ==
    /\ ~Idle
    /\ Top.pc = "native"
    /\ Top.metadata.require.op \in {"def_file_for_type", "def_rb_source_file"}

(* C20: frame of the metadata write.  The step of require that marks a         *)
(* candidate P required changes nothing in the Vfs but P's already_required    *)
(* flag: the native-loader binding and the content of P are those the Vfs held *)
(* just before the write, whatever the loader registered during the load, and  *)
(* every other path is as it was; no other step of require changes the Vfs.    *)
C20_WriteFrame ==
    [][/\ \A p \in FilePaths :
             Writes(p) => vfs' = [vfs EXCEPT ![p].meta.already_required = TRUE]
       /\ (~Idle /\ ~LoaderRegisters /\ \A p \in FilePaths : ~Writes(p)) =>
             vfs' = vfs]_vars

====
